---- MODULE Spec2Model ----
(***************************************************************************)
(* Loan calculator (my-loan-app/src/App.jsx): the portfolio state machine  *)
(* of the App component (loans, active loan, import feedback, file reads   *)
(* and dismiss timers in flight) and its numeric core (schedule generator, *)
(* cashflow builder, IRR solver, aggregator).                              *)
(*                                                                         *)
(* JavaScript numbers are binary floating point.  They are modelled as     *)
(* binary floating point with a significand of MantBits bits (instead of   *)
(* 53), unbounded exponent, round-to-nearest-even after every operation,   *)
(* and the non-finite values Infinity, -Infinity and NaN.                  *)
(***************************************************************************)
EXTENDS Integers, Sequences, FiniteSets, Bags, TLC

(***************************************************************************)
(* Bounds of the model                                                     *)
(***************************************************************************)
\* significand width of the modelled numbers
MantBits == 11

\* addLoan is taken only while fewer loans than this are held and the new
\* id does not exceed it
MaxLoans == 3

\* file reads and dismiss timers in flight together
MaxPending == 2

VARIABLES
  loans,          \* useState: the portfolio, in display order
  activeLoanId,   \* useState: id of the active loan
  editingLoanId,  \* useState: <<id>> of the loan being renamed, <<>> for null
  importError,    \* useState: the message shown, <<>> for null
  importSuccess,  \* useState: the success flag
  dialogOpen,     \* the file dialog opened by fileInputRef.current.click()
  reads,          \* bag of the files whose FileReader read has not completed yet
  timers,         \* setTimeout callbacks not run yet, per kind
  view,           \* the memos computed by a render: data, finalStats, portfolioTotals
  last            \* the handler that ran last, with its argument

vars ==
  <<loans, activeLoanId, editingLoanId, importError, importSuccess, dialogOpen,
    reads, timers, view, last>>

(***************************************************************************)
(* Number arithmetic                                                       *)
(***************************************************************************)
Abs(n) == IF n < 0 THEN 0 - n ELSE n

Sgn(n) == IF n < 0 THEN 0 - 1 ELSE IF n = 0 THEN 0 ELSE 1

\* number of bits of n >= 0
RECURSIVE BitLen(_)
BitLen(n) ==
  IF n >= 65536 THEN 16 + BitLen(n \div 65536)
  ELSE IF n >= 256 THEN 8 + BitLen(n \div 256)
  ELSE IF n >= 16 THEN 4 + BitLen(n \div 16)
  ELSE IF n >= 4 THEN (IF n >= 8 THEN 4 ELSE 3)
  ELSE IF n >= 2 THEN 2 ELSE n

Fin(m, e) == [k |-> "fin", m |-> m, e |-> e]

Zero == Fin(0, 0)

Inf(s) == [k |-> "inf", m |-> s, e |-> 0]

NaN == [k |-> "nan", m |-> 0, e |-> 0]

IsFinite(x) == x.k = "fin"

\* the number m * 2^e, rounded to MantBits significant bits (ties to even)
Round(m, e) ==
  LET a == Abs(m)
      L == BitLen(a)
  IN  IF m = 0 THEN Zero
      ELSE IF L <= MantBits
        THEN Fin(m * 2^(MantBits - L), e - (MantBits - L))
        ELSE LET sh == L - MantBits
                 q == a \div 2^sh
                 r == a % 2^sh
                 half == 2^(sh - 1)
                 q2 == IF r > half \/ (r = half /\ q % 2 = 1) THEN q + 1 ELSE q
             IN  IF q2 = 2^MantBits
                   THEN Fin(Sgn(m) * 2^(MantBits - 1), e + sh + 1)
                   ELSE Fin(Sgn(m) * q2, e + sh)

FromInt(n) == Round(n, 0)

FNeg(x) == [x EXCEPT !.m = 0 - x.m]

FAdd(x, y) ==
  IF x.k = "nan" \/ y.k = "nan" THEN NaN
  ELSE IF x.k = "inf" THEN (IF y.k = "inf" /\ y.m # x.m THEN NaN ELSE x)
  ELSE IF y.k = "inf" THEN y
  ELSE IF x.m = 0 THEN y
  ELSE IF y.m = 0 THEN x
  ELSE LET hi == IF x.e >= y.e THEN x ELSE y
           lo == IF x.e >= y.e THEN y ELSE x
           d == hi.e - lo.e
       IN  IF d >= MantBits + 2 THEN hi
           ELSE Round(hi.m * 2^d + lo.m, lo.e)

FSub(x, y) == FAdd(x, FNeg(y))

FMul(x, y) ==
  IF x.k = "nan" \/ y.k = "nan" THEN NaN
  ELSE IF x.k = "inf" \/ y.k = "inf"
    THEN (IF x.m = 0 \/ y.m = 0 THEN NaN ELSE Inf(Sgn(x.m) * Sgn(y.m)))
  ELSE Round(x.m * y.m, x.e + y.e)

FDiv(x, y) ==
  IF x.k = "nan" \/ y.k = "nan" THEN NaN
  ELSE IF x.k = "inf" THEN (IF y.k = "inf" THEN NaN
                            ELSE Inf(x.m * (IF y.m < 0 THEN 0 - 1 ELSE 1)))
  ELSE IF y.k = "inf" THEN Zero
  ELSE IF y.m = 0 THEN (IF x.m = 0 THEN NaN ELSE Inf(Sgn(x.m)))
  ELSE IF x.m = 0 THEN Zero
  ELSE LET n == Abs(x.m) * 2^(MantBits + 2)
           q == n \div Abs(y.m)
           sticky == IF n % Abs(y.m) = 0 THEN 0 ELSE 1
       IN  Round(Sgn(x.m) * Sgn(y.m) * (2 * q + sticky),
                 x.e - y.e - (MantBits + 3))

\* x < y; any comparison with NaN is false
FLess(x, y) ==
  /\ x.k # "nan" /\ y.k # "nan"
  /\ x # y
  /\ IF x.k = "inf" THEN x.m < 0
     ELSE IF y.k = "inf" THEN y.m > 0
     ELSE FSub(x, y).m < 0

FLeq(x, y) == x.k # "nan" /\ y.k # "nan" /\ (x = y \/ FLess(x, y))

\* Math.max(x, y)
FMax(x, y) ==
  IF x.k = "nan" \/ y.k = "nan" THEN NaN ELSE IF FLess(x, y) THEN y ELSE x

\* Math.ceil(a / b) and Math.floor(a / b) for integers a and b > 0
CeilDiv(a, b) == 0 - ((0 - a) \div b)

FloorDiv(a, b) == a \div b

(***************************************************************************)
(* Loans                                                                   *)
(***************************************************************************)
\* String(n) for an integer n, as the list of its sign and digits
RECURSIVE Str(_)
Str(n) ==
  LET digit == <<"0", "1", "2", "3", "4", "5", "6", "7", "8", "9">>[(n % 10) + 1]
  IN  IF n < 0 THEN <<"-">> \o Str(0 - n)
      ELSE IF n < 10 THEN <<digit>> ELSE Str(n \div 10) \o <<digit>>

\* a string is the list of its pieces; `Loan ${id}`
LoanName(id) == <<"Loan ">> \o Str(id)

\* createLoan(id)
CreateLoan(id) ==
  [id |-> id, name |-> LoanName(id), principal |-> 1000, totalMonths |-> 60,
   annualRate |-> 10, graceMonths |-> 12, paymentFrequency |-> 3,
   loanType |-> "amortizing"]

(***************************************************************************)
(* Schedule generator: the `data` memo of App, for the active loan         *)
(***************************************************************************)
Period(p, balance, interest, princ, total, cum) ==
  [period_label |-> <<"P">> \o Str(p), remaining_balance |-> balance,
   interest_payment |-> interest, principal_payment |-> princ,
   total_payment |-> total, cumulative_interest |-> cum]

\* interestPerPeriod of a bullet loan
BulletInterest(loan) ==
  FMul(FMul(FromInt(loan.principal), FDiv(FromInt(loan.annualRate), FromInt(100))),
       FDiv(FromInt(loan.paymentFrequency), FromInt(12)))

\* the rate of one month, whatever the payment frequency
PeriodRateMonthly(loan) ==
  FDiv(FDiv(FromInt(loan.annualRate), FromInt(100)), FromInt(12))

\* periodRate = annualRate / 100 / (12 / paymentFrequency)
PeriodRate(loan) ==
  FDiv(FDiv(FromInt(loan.annualRate), FromInt(100)),
       FDiv(FromInt(12), FromInt(loan.paymentFrequency)))

GracePeriods(loan) == FloorDiv(loan.graceMonths, loan.paymentFrequency)

AmortPeriods(loan) ==
  CeilDiv(loan.totalMonths - loan.graceMonths, loan.paymentFrequency)

\* the principal spread over all periods, grace included
PrincipalPerTotalPeriod(loan) ==
  FDiv(FromInt(loan.principal),
       FromInt(CeilDiv(loan.totalMonths, loan.paymentFrequency)))

PrincipalPerPeriod(loan) ==
  FDiv(FromInt(loan.principal), FromInt(AmortPeriods(loan)))

\* The loops of the memo keep their counter p in the loop state st and are
\* run as n passes split in halves, so that the evaluation stays shallow;
\* the passes happen in the order of the code.

\* one pass of the bullet loop that repays no principal in the last period
BulletStepInterestOnly(totalPeriods, principal, ipp, st) ==
  LET cum2 == FAdd(st.cum, ipp)
  IN  [p |-> st.p + 1, balance |-> st.balance, cum |-> cum2,
       periods |-> Append(st.periods, Period(st.p, principal, ipp, Zero, ipp, cum2))]

\* one pass of for (p = 1; p <= totalPeriods; p++) of the bullet branch;
\* st = [p, balance, cum, periods]
BulletStep(totalPeriods, principal, ipp, st) ==
  LET cum2 == FAdd(st.cum, ipp)
      isLast == st.p = totalPeriods
  IN  [p |-> st.p + 1, balance |-> st.balance, cum |-> cum2,
       periods |-> Append(st.periods,
         Period(st.p, IF isLast THEN Zero ELSE principal, ipp,
                IF isLast THEN principal ELSE Zero,
                IF isLast THEN FAdd(principal, ipp) ELSE ipp, cum2))]

RECURSIVE BulletLoop(_, _, _, _, _)
BulletLoop(n, totalPeriods, principal, ipp, st) ==
  IF st.p > totalPeriods THEN st
  ELSE IF n <= 1 THEN BulletStep(totalPeriods, principal, ipp, st)
  ELSE BulletLoop(n - n \div 2, totalPeriods, principal, ipp,
         BulletLoop(n \div 2, totalPeriods, principal, ipp, st))

\* one pass of for (p = 1; p <= gracePeriods; p++) of the amortizing branch
GraceStep(principal, periodRate, st) ==
  LET interestPayment == FMul(principal, periodRate)
      cum2 == FAdd(st.cum, interestPayment)
  IN  [p |-> st.p + 1, balance |-> st.balance, cum |-> cum2,
       periods |-> Append(st.periods,
         Period(st.p, st.balance, interestPayment, Zero, interestPayment, cum2))]

RECURSIVE GraceLoop(_, _, _, _, _)
GraceLoop(n, gracePeriods, principal, periodRate, st) ==
  IF st.p > gracePeriods THEN st
  ELSE IF n <= 1 THEN GraceStep(principal, periodRate, st)
  ELSE GraceLoop(n - n \div 2, gracePeriods, principal, periodRate,
         GraceLoop(n \div 2, gracePeriods, principal, periodRate, st))

\* one pass of the amortization loop that takes the interest on the balance
\* after the reduction
AmortStepInterestAfter(gracePeriods, ppp, periodRate, st) ==
  LET balance2 == FSub(st.balance, ppp)
      interestPayment == FMul(balance2, periodRate)
      totalPayment == FAdd(ppp, interestPayment)
      cum2 == FAdd(st.cum, interestPayment)
  IN  [p |-> st.p + 1, balance |-> balance2, cum |-> cum2,
       periods |-> Append(st.periods,
         Period(gracePeriods + st.p, FMax(Zero, balance2), interestPayment,
                ppp, totalPayment, cum2))]

\* one pass of the amortization loop that reports the balance without
\* Math.max(0, balance)
AmortStepUnclamped(gracePeriods, ppp, periodRate, st) ==
  LET interestPayment == FMul(st.balance, periodRate)
      totalPayment == FAdd(ppp, interestPayment)
      balance2 == FSub(st.balance, ppp)
      cum2 == FAdd(st.cum, interestPayment)
  IN  [p |-> st.p + 1, balance |-> balance2, cum |-> cum2,
       periods |-> Append(st.periods,
         Period(gracePeriods + st.p, balance2, interestPayment,
                ppp, totalPayment, cum2))]

\* one pass of for (p = 1; p <= amortPeriods; p++) of the amortizing branch
AmortStep(gracePeriods, ppp, periodRate, st) ==
  LET interestPayment == FMul(st.balance, periodRate)
      totalPayment == FAdd(ppp, interestPayment)
      balance2 == FSub(st.balance, ppp)
      cum2 == FAdd(st.cum, interestPayment)
  IN  [p |-> st.p + 1, balance |-> balance2, cum |-> cum2,
       periods |-> Append(st.periods,
         Period(gracePeriods + st.p, FMax(Zero, balance2), interestPayment,
                ppp, totalPayment, cum2))]

RECURSIVE AmortLoop(_, _, _, _, _, _)
AmortLoop(n, amortPeriods, gracePeriods, ppp, periodRate, st) ==
  IF st.p > amortPeriods THEN st
  ELSE IF n <= 1 THEN AmortStep(gracePeriods, ppp, periodRate, st)
  ELSE AmortLoop(n - n \div 2, amortPeriods, gracePeriods, ppp, periodRate,
         AmortLoop(n \div 2, amortPeriods, gracePeriods, ppp, periodRate, st))

\* the loop state before the first pass
LoopStart(principal, cum, periods) ==
  [p |-> 1, balance |-> principal, cum |-> cum, periods |-> periods]

Data(loan) ==
  IF loan.loanType = "bullet"
    THEN LET totalPeriods == CeilDiv(loan.totalMonths, loan.paymentFrequency)
         IN  BulletLoop(totalPeriods, totalPeriods, FromInt(loan.principal),
                        BulletInterest(loan),
                        LoopStart(FromInt(loan.principal), Zero, <<>>)).periods
    ELSE LET g == GraceLoop(GracePeriods(loan), GracePeriods(loan),
                            FromInt(loan.principal), PeriodRate(loan),
                            LoopStart(FromInt(loan.principal), Zero, <<>>))
         IN  AmortLoop(AmortPeriods(loan), AmortPeriods(loan), GracePeriods(loan),
                       PrincipalPerPeriod(loan), PeriodRate(loan),
                       LoopStart(FromInt(loan.principal), g.cum, g.periods)).periods

(***************************************************************************)
(* Cashflow builder                                                        *)
(***************************************************************************)
\* The loops of buildCashflows, run as the loops of the memo are;
\* st = [p, balance, cum, periods] with the cashflows as periods
BulletFlow(totalPeriods, freq, principal, ipp, st) ==
  [st EXCEPT !.p = st.p + 1,
     !.periods = Append(st.periods,
       [payment |-> IF st.p = totalPeriods THEN FAdd(principal, ipp) ELSE ipp,
        months |-> st.p * freq])]

RECURSIVE BulletFlows(_, _, _, _, _, _)
BulletFlows(n, totalPeriods, freq, principal, ipp, st) ==
  IF st.p > totalPeriods THEN st
  ELSE IF n <= 1 THEN BulletFlow(totalPeriods, freq, principal, ipp, st)
  ELSE BulletFlows(n - n \div 2, totalPeriods, freq, principal, ipp,
         BulletFlows(n \div 2, totalPeriods, freq, principal, ipp, st))

GraceFlow(freq, principal, periodRate, st) ==
  [st EXCEPT !.p = st.p + 1,
     !.periods = Append(st.periods,
       [payment |-> FMul(principal, periodRate), months |-> st.p * freq])]

RECURSIVE GraceFlows(_, _, _, _, _, _)
GraceFlows(n, gracePeriods, freq, principal, periodRate, st) ==
  IF st.p > gracePeriods THEN st
  ELSE IF n <= 1 THEN GraceFlow(freq, principal, periodRate, st)
  ELSE GraceFlows(n - n \div 2, gracePeriods, freq, principal, periodRate,
         GraceFlows(n \div 2, gracePeriods, freq, principal, periodRate, st))

\* one amortization cashflow with the balance never reduced
AmortFlowStaleBalance(gracePeriods, freq, ppp, periodRate, st) ==
  [st EXCEPT !.p = st.p + 1,
     !.periods = Append(st.periods,
       [payment |-> FAdd(ppp, FMul(st.balance, periodRate)),
        months |-> (gracePeriods + st.p) * freq])]

\* one pass of the amortization loop of buildCashflows
AmortFlow(gracePeriods, freq, ppp, periodRate, st) ==
  LET interest == FMul(st.balance, periodRate)
  IN  [st EXCEPT !.p = st.p + 1,
         !.balance = FSub(st.balance, ppp),
         !.periods = Append(st.periods,
           [payment |-> FAdd(ppp, interest),
            months |-> (gracePeriods + st.p) * freq])]

RECURSIVE AmortFlows(_, _, _, _, _, _, _)
AmortFlows(n, amortPeriods, gracePeriods, freq, ppp, periodRate, st) ==
  IF st.p > amortPeriods THEN st
  ELSE IF n <= 1 THEN AmortFlow(gracePeriods, freq, ppp, periodRate, st)
  ELSE AmortFlows(n - n \div 2, amortPeriods, gracePeriods, freq, ppp, periodRate,
         AmortFlows(n \div 2, amortPeriods, gracePeriods, freq, ppp, periodRate, st))

BuildCashflows(loan) ==
  IF loan.loanType = "bullet"
    THEN LET totalPeriods == CeilDiv(loan.totalMonths, loan.paymentFrequency)
         IN  BulletFlows(totalPeriods, totalPeriods, loan.paymentFrequency,
                         FromInt(loan.principal), BulletInterest(loan),
                         LoopStart(FromInt(loan.principal), Zero, <<>>)).periods
    ELSE LET g == GraceFlows(GracePeriods(loan), GracePeriods(loan),
                             loan.paymentFrequency, FromInt(loan.principal),
                             PeriodRate(loan),
                             LoopStart(FromInt(loan.principal), Zero, <<>>))
         IN  AmortFlows(AmortPeriods(loan), AmortPeriods(loan), GracePeriods(loan),
                        loan.paymentFrequency, PrincipalPerPeriod(loan),
                        PeriodRate(loan),
                        LoopStart(FromInt(loan.principal), Zero, g.periods)).periods

(***************************************************************************)
(* IRR solver                                                              *)
(***************************************************************************)
MaxIter == 100

One == FromInt(1)

FAbs(x) == [x EXCEPT !.m = Abs(x.m)]

\* the decimal literal n / d
Dec(n, d) == FDiv(FromInt(n), FromInt(d))

\* the literals 1e-12 and 1e-10
Eps12 == FDiv(Dec(1, 1000000), FromInt(1000000))

Eps10 == FDiv(Dec(1, 100000), FromInt(100000))

\* Math.pow(x, n) for an integer n >= 0, by squaring
RECURSIVE FPow(_, _)
FPow(x, n) ==
  IF n = 0 THEN One
  ELSE IF n % 2 = 0 THEN LET h == FPow(x, n \div 2) IN FMul(h, h)
  ELSE FMul(x, FPow(x, n - 1))

\* npv(r) = -principal + sum of payment / (1 + r)^months
RECURSIVE NpvLoop(_, _, _, _)
NpvLoop(cashflows, i, r, sum) ==
  IF i > Len(cashflows) THEN sum
  ELSE NpvLoop(cashflows, i + 1, r,
         FAdd(sum, FDiv(cashflows[i].payment, FPow(FAdd(One, r), cashflows[i].months))))

Npv(principal, cashflows, r) == NpvLoop(cashflows, 1, r, FNeg(principal))

\* npvDerivative(r) = - sum of months * payment / (1 + r)^(months + 1)
RECURSIVE NpvDerivativeLoop(_, _, _, _)
NpvDerivativeLoop(cashflows, i, r, sum) ==
  IF i > Len(cashflows) THEN sum
  ELSE NpvDerivativeLoop(cashflows, i + 1, r,
         FSub(sum, FDiv(FMul(FromInt(cashflows[i].months), cashflows[i].payment),
                        FPow(FAdd(One, r), cashflows[i].months + 1))))

NpvDerivative(cashflows, r) == NpvDerivativeLoop(cashflows, 1, r, Zero)

\* a pass whose re-seeded iterate is not counted
NewtonStepReseedUncounted(principal, cashflows, st) ==
  LET r == st.r
      fn == Npv(principal, cashflows, r)
      dfn == NpvDerivative(cashflows, r)
      rNew == FSub(r, FDiv(fn, dfn))
  IN  IF FLess(FAbs(dfn), Eps12)
        THEN [r |-> r, i |-> st.i + 1, done |-> TRUE, exit |-> "stalled", prev |-> r]
      ELSE IF FLess(FAbs(FSub(rNew, r)), Eps10)
        THEN [r |-> rNew, i |-> st.i + 1, done |-> TRUE, exit |-> "converged", prev |-> r]
      ELSE IF FLeq(rNew, FromInt(0 - 1))
        THEN [r |-> Dec(1, 10000), i |-> st.i, done |-> FALSE, exit |-> "none", prev |-> r]
      ELSE [r |-> rNew, i |-> st.i + 1, done |-> FALSE, exit |-> "none", prev |-> r]

\* one pass through the body of for (let i = 0; i < 100; i++), from the
\* iterate st.r; done is set by a break and exit names it, i counts the
\* passes made, prev is the iterate the last pass started from
NewtonStep(principal, cashflows, st) ==
  LET r == st.r
      fn == Npv(principal, cashflows, r)
      dfn == NpvDerivative(cashflows, r)
      rNew == FSub(r, FDiv(fn, dfn))
  IN  IF FLess(FAbs(dfn), Eps12)
        THEN [r |-> r, i |-> st.i + 1, done |-> TRUE, exit |-> "stalled", prev |-> r]
      ELSE IF FLess(FAbs(FSub(rNew, r)), Eps10)
        THEN [r |-> rNew, i |-> st.i + 1, done |-> TRUE, exit |-> "converged", prev |-> r]
      ELSE [r |-> IF FLeq(rNew, FromInt(0 - 1)) THEN Dec(1, 10000) ELSE rNew,
            i |-> st.i + 1, done |-> FALSE, exit |-> "none", prev |-> r]

\* the passes lo .. hi - 1 of the loop, unless a break ended it
RECURSIVE NewtonLoop(_, _, _, _, _)
NewtonLoop(principal, cashflows, lo, hi, st) ==
  IF st.done \/ lo >= hi THEN st
  ELSE IF hi = lo + 1 THEN NewtonStep(principal, cashflows, st)
  ELSE LET mid == (lo + hi) \div 2
       IN  NewtonLoop(principal, cashflows, mid, hi,
                      NewtonLoop(principal, cashflows, lo, mid, st))

\* let r = 0.008, before the first pass
NewtonStart ==
  [r |-> Dec(8, 1000), i |-> 0, done |-> FALSE, exit |-> "none", prev |-> Dec(8, 1000)]

Newton(principal, cashflows) ==
  NewtonLoop(principal, cashflows, 0, MaxIter, NewtonStart)

\* (Math.pow(1 + r, 12) - 1) * 100
Annualized(r) == FMul(FSub(FPow(FAdd(One, r), 12), One), FromInt(100))

\* the run that returns at the first line: no pass of the solver
NoRun ==
  [passes |-> 0, exit |-> "none", r |-> Dec(8, 1000), prev |-> Dec(8, 1000),
   annualized |-> Zero, result |-> Zero]

\* a run of the solver that returns the value annualized unguarded
RunUnguarded(st, annualized) ==
  [passes |-> st.i, exit |-> st.exit, r |-> st.r, prev |-> st.prev,
   annualized |-> annualized, result |-> annualized]

\* return isFinite(annualized) ? annualized : 0, after the loop left at st
RunWith(st, annualized) ==
  [passes |-> st.i, exit |-> st.exit, r |-> st.r, prev |-> st.prev,
   annualized |-> annualized,
   result |-> IF IsFinite(annualized) THEN annualized ELSE Zero]

RunOf(st) == RunWith(st, Annualized(st.r))

\* computeIRR without the test of principal at its first line
IRRRunAnyPrincipal(missing, principal, cashflows) ==
  IF missing \/ Len(cashflows) = 0 THEN NoRun
  ELSE RunOf(Newton(principal, cashflows))

\* computeIRR(principal, cashflows), with what the call did; missing stands
\* for a cashflows argument that is undefined or null
IRRRun(missing, principal, cashflows) ==
  IF missing \/ Len(cashflows) = 0 \/ FLeq(principal, Zero) THEN NoRun
  ELSE RunOf(Newton(principal, cashflows))

ComputeIRR(principal, cashflows) == IRRRun(FALSE, principal, cashflows).result

(***************************************************************************)
(* Active loan stats: the `finalStats` memo                                *)
(***************************************************************************)
EffectiveRate(interest, loan) ==
  FMul(FDiv(FDiv(interest, FromInt(loan.principal)),
            FDiv(FromInt(loan.totalMonths), FromInt(12))),
       FromInt(100))

\* finalStats with paid taken as the interest alone
FinalStatsPaidInterest(data, loan) ==
  IF Len(data) = 0
    THEN [interest |-> Zero, paid |-> Zero, effectiveRate |-> Zero, irrRate |-> Zero]
    ELSE [interest |-> data[Len(data)].cumulative_interest,
          paid |-> data[Len(data)].cumulative_interest,
          effectiveRate |-> EffectiveRate(data[Len(data)].cumulative_interest, loan),
          irrRate |-> ComputeIRR(FromInt(loan.principal), BuildCashflows(loan))]

FinalStats(data, loan) ==
  IF Len(data) = 0
    THEN [interest |-> Zero, paid |-> Zero, effectiveRate |-> Zero, irrRate |-> Zero]
    ELSE LET interest == data[Len(data)].cumulative_interest
         IN  [interest |-> interest,
              paid |-> FAdd(FromInt(loan.principal), interest),
              effectiveRate |-> EffectiveRate(interest, loan),
              irrRate |-> ComputeIRR(FromInt(loan.principal), BuildCashflows(loan))]

(***************************************************************************)
(* Portfolio totals: the `portfolioTotals` memo                            *)
(***************************************************************************)
\* for (p = 1; p <= gracePeriods; p++) interestSum += principal * periodRate
RECURSIVE GraceInterest(_, _, _, _, _)
GraceInterest(p, gracePeriods, principal, periodRate, interestSum) ==
  IF p > gracePeriods THEN interestSum
  ELSE GraceInterest(p + 1, gracePeriods, principal, periodRate,
                     FAdd(interestSum, FMul(principal, periodRate)))

\* for (p = 1; p <= amortPeriods; p++) of portfolioTotals
RECURSIVE AmortInterest(_, _, _, _, _, _, _)
AmortInterest(p, amortPeriods, amortizing, ppp, periodRate, balance, interestSum) ==
  IF p > amortPeriods THEN interestSum
  ELSE AmortInterest(p + 1, amortPeriods, amortizing, ppp, periodRate,
                     FSub(balance, ppp),
                     FAdd(interestSum,
                          IF amortizing THEN FMul(balance, periodRate) ELSE Zero))

\* interestSum of one loan inside loans.forEach
InterestSum(loan) ==
  LET amortizing == loan.loanType = "amortizing"
  IN  AmortInterest(1, AmortPeriods(loan), amortizing,
        IF amortizing THEN PrincipalPerPeriod(loan) ELSE Zero,
        PeriodRate(loan), FromInt(loan.principal),
        GraceInterest(1, GracePeriods(loan), FromInt(loan.principal),
                      PeriodRate(loan), Zero))

\* what one pass of loans.forEach adds to the four sums, for a loan whose
\* interestSum is known
LoanTotals(loan, interestSum) ==
  [principal |-> FromInt(loan.principal),
   interestSum |-> interestSum,
   weightedEffective |-> FMul(EffectiveRate(interestSum, loan), FromInt(loan.principal)),
   weightedIRR |-> FMul(ComputeIRR(FromInt(loan.principal), BuildCashflows(loan)),
                        FromInt(loan.principal))]

\* totalPrincipal += principal ... weightedIRRSum += irr * principal
AddTotals(acc, t) ==
  [totalPrincipal |-> FAdd(acc.totalPrincipal, t.principal),
   totalInterest |-> FAdd(acc.totalInterest, t.interestSum),
   weightedEffectiveSum |-> FAdd(acc.weightedEffectiveSum, t.weightedEffective),
   weightedIRRSum |-> FAdd(acc.weightedIRRSum, t.weightedIRR)]

RECURSIVE TotalsLoop(_, _, _)
TotalsLoop(ls, i, acc) ==
  IF i > Len(ls) THEN acc
  ELSE TotalsLoop(ls, i + 1, AddTotals(acc, LoanTotals(ls[i], InterestSum(ls[i]))))

\* the object returned from the four sums, the rates divided unguarded
TotalsOfUnguarded(acc) ==
  [totalPrincipal |-> acc.totalPrincipal,
   totalInterest |-> acc.totalInterest,
   effectiveRate |-> FDiv(acc.weightedEffectiveSum, acc.totalPrincipal),
   irrRate |-> FDiv(acc.weightedIRRSum, acc.totalPrincipal)]

\* the object returned from the four sums
TotalsOf(acc) ==
  [totalPrincipal |-> acc.totalPrincipal,
   totalInterest |-> acc.totalInterest,
   effectiveRate |-> IF FLess(Zero, acc.totalPrincipal)
                       THEN FDiv(acc.weightedEffectiveSum, acc.totalPrincipal)
                       ELSE Zero,
   irrRate |-> IF FLess(Zero, acc.totalPrincipal)
                 THEN FDiv(acc.weightedIRRSum, acc.totalPrincipal)
                 ELSE Zero]

PortfolioTotals(ls) ==
  IF Len(ls) = 0
    THEN [totalPrincipal |-> Zero, totalInterest |-> Zero,
          effectiveRate |-> Zero, irrRate |-> Zero]
    ELSE TotalsOf(TotalsLoop(ls, 1,
           [totalPrincipal |-> Zero, totalInterest |-> Zero,
            weightedEffectiveSum |-> Zero, weightedIRRSum |-> Zero]))

(***************************************************************************)
(* Import: importPortfolio(file)                                           *)
(***************************************************************************)
Required ==
  <<"id", "name", "principal", "totalMonths", "annualRate", "graceMonths",
    "paymentFrequency", "loanType">>

RequiredSet == {Required[i] : i \in 1..Len(Required)}

\* the first key of `required` that the loan object lacks, 0 if none
RECURSIVE FirstMissing(_, _)
FirstMissing(item, j) ==
  IF j > Len(Required) THEN 0
  ELSE IF Required[j] \notin item.has THEN j
  ELSE FirstMissing(item, j + 1)

\* e.message of the TypeError thrown by reading property k of v
TypeErrorMessage(v, k) == <<"Cannot read properties of ", v, " (reading '", k, "')">>

MissingFieldMessage(i, k) ==
  <<"Loan ">> \o Str(i + 1) \o <<" is missing field \"", k, "\".">>

MissingLoansMessage == <<"Invalid file: missing loans array.">>

Resolve(ls) == [ok |-> TRUE, loans |-> ls, message |-> <<>>]

Reject(msg) == [ok |-> FALSE, loans |-> <<>>, message |-> msg]

\* parsed.loans.forEach((loan, i) => required.forEach(k => ...)), from index i
\* (0-based as in the code); the first throw ends it
RECURSIVE ValidateLoans(_, _)
ValidateLoans(items, i) ==
  IF i >= Len(items) THEN Resolve([n \in 1..Len(items) |-> items[n].rec])
  ELSE LET item == items[i + 1]
       IN  IF item.kind = "null" THEN Reject(TypeErrorMessage("null", Required[1]))
           ELSE IF FirstMissing(item, 1) # 0
             THEN Reject(MissingFieldMessage(i, Required[FirstMissing(item, 1)]))
           ELSE ValidateLoans(items, i + 1)

\* the settlement of the promise importPortfolio(file) returns
ImportPortfolio(file) ==
  IF file.kind = "unreadable" THEN Reject(<<"Failed to read file.">>)
  ELSE IF file.kind = "syntaxError" THEN Reject(<<"Unexpected token in JSON">>)
  ELSE IF file.kind = "null" THEN Reject(TypeErrorMessage("null", "loans"))
  ELSE IF file.kind # "loans" THEN Reject(MissingLoansMessage)
  ELSE ValidateLoans(file.items, 0)

(***************************************************************************)
(* Files the user can pick                                                 *)
(***************************************************************************)
File(kind, items) == [kind |-> kind, items |-> items]

NoFile == File("none", <<>>)

\* a loan object of a file: its keys and their values
OkItem(id) ==
  [kind |-> "object", has |-> RequiredSet,
   rec |-> [CreateLoan(id) EXCEPT !.principal = 500, !.loanType = "bullet"]]

MissingItem(id, missing) == [OkItem(id) EXCEPT !.has = RequiredSet \ missing]

NullItem == [kind |-> "null", has |-> {}, rec |-> CreateLoan(0)]

FileLoanLists ==
  { <<>>,
    <<NullItem, MissingItem(2, {"id"})>>,
    <<MissingItem(1, {"annualRate"})>>,
    <<OkItem(1), MissingItem(2, {"loanType"})>>,
    <<MissingItem(1, {"graceMonths", "totalMonths"}), MissingItem(2, {"id"})>>,
    <<OkItem(2)>>,
    <<OkItem(2), OkItem(1)>>,
    <<OkItem(1), OkItem(1)>> }

Files ==
  { File(k, <<>>) : k \in {"unreadable", "syntaxError", "null", "noLoans", "loansNotArray"} }
    \cup { File("loans", items) : items \in FileLoanLists }

(***************************************************************************)
(* The App component                                                       *)
(***************************************************************************)
Null == <<>>

NoStats == [interest |-> Zero, paid |-> Zero, effectiveRate |-> Zero, irrRate |-> Zero]

NoTotals ==
  [totalPrincipal |-> Zero, totalInterest |-> Zero, effectiveRate |-> Zero, irrRate |-> Zero]

\* no memo computed yet; stage names the last memo computed, failure the
\* exception a memo threw ("none": it returned)
\* no call of computeIRR observed: arguments and what the call did
NoCall == [missing |-> FALSE, principal |-> Zero, cashflows |-> <<>>, run |-> NoRun]

Unrendered ==
  [stage |-> "none", failure |-> "none", data |-> <<>>, finalStats |-> NoStats,
   portfolioTotals |-> NoTotals, irr |-> NoCall]

Ran(op, id, file) == [op |-> op, id |-> id, file |-> file]

\* useState initial values
InitWith(ls, active) ==
  /\ loans = ls
  /\ activeLoanId = active
  /\ editingLoanId = Null
  /\ importError = Null
  /\ importSuccess = FALSE
  /\ dialogOpen = FALSE
  /\ reads = EmptyBag
  /\ timers = [success |-> 0, error |-> 0]
  /\ view = Unrendered
  /\ last = Ran("init", 0, NoFile)

Init == InitWith(<<CreateLoan(1)>>, 1)

Ids(ls) == {ls[i].id : i \in 1..Len(ls)}

\* loans.find(l => l.id === activeLoanId) is defined
HasActiveLoan == activeLoanId \in Ids(loans)

ActiveLoan == loans[CHOOSE i \in 1..Len(loans) :
                      /\ loans[i].id = activeLoanId
                      /\ \A j \in 1..(i - 1) : loans[j].id # activeLoanId]

\* the component is mounted: the last render did not throw on a missing active loan
Mounted == HasActiveLoan

\* the sidebar and the form take input: mounted, and no file dialog is open
Interactive == Mounted /\ ~dialogOpen

Max(S) == CHOOSE x \in S : \A y \in S : y <= x

\* loans.filter(l => l.id !== id)
RECURSIVE FilterOut(_, _)
FilterOut(ls, id) ==
  IF Len(ls) = 0 THEN <<>>
  ELSE IF Head(ls).id # id THEN <<Head(ls)>> \o FilterOut(Tail(ls), id)
  ELSE FilterOut(Tail(ls), id)

\* addLoan numbering the new loan by the length of the list
AddLoanByLength(ls) == Append(ls, CreateLoan(Len(ls) + 1))

\* the body of addLoan
AddLoanTo(ls) == Append(ls, CreateLoan(Max(Ids(ls)) + 1))

AddLoan ==
  /\ Interactive /\ editingLoanId = Null
  /\ Len(loans) < MaxLoans
  /\ Max(Ids(loans)) + 1 <= MaxLoans
  /\ loans' = AddLoanTo(loans)
  /\ activeLoanId' = Max(Ids(loans)) + 1
  /\ last' = Ran("addLoan", Max(Ids(loans)) + 1, NoFile)
  /\ UNCHANGED <<editingLoanId, importError, importSuccess, dialogOpen, reads, timers, view>>

\* the body of addLoan in the earlier variants: newId = loans.length + 1
EarlierAddLoanTo(ls) == Append(ls, CreateLoan(Len(ls) + 1))

EarlierAddLoan ==
  /\ Interactive /\ editingLoanId = Null
  /\ Len(loans) < MaxLoans
  /\ loans' = EarlierAddLoanTo(loans)
  /\ activeLoanId' = Len(loans) + 1
  /\ last' = Ran("addLoan", Len(loans) + 1, NoFile)
  /\ UNCHANGED <<editingLoanId, importError, importSuccess, dialogOpen, reads, timers, view>>

\* removeLoan without its early return
RemoveLoanUnguarded(ls, active, id) ==
  LET updated == FilterOut(ls, id)
  IN  [loans |-> updated,
       activeLoanId |-> IF id = active /\ Len(updated) > 0 THEN updated[1].id ELSE active]

\* the body of removeLoan: the new loans and activeLoanId; when the filter
\* leaves nothing, updated[0].id throws after setLoans(updated)
RemoveLoanFrom(ls, active, id) ==
  IF Len(ls) = 1 THEN [loans |-> ls, activeLoanId |-> active]
  ELSE LET updated == FilterOut(ls, id)
       IN  [loans |-> updated,
            activeLoanId |-> IF id = active /\ Len(updated) > 0
                               THEN updated[1].id ELSE active]

RemoveLoan(id) ==
  /\ Interactive /\ editingLoanId = Null
  /\ loans' = RemoveLoanFrom(loans, activeLoanId, id).loans
  /\ activeLoanId' = RemoveLoanFrom(loans, activeLoanId, id).activeLoanId
  /\ last' = Ran("removeLoan", id, NoFile)
  /\ UNCHANGED <<editingLoanId, importError, importSuccess, dialogOpen, reads, timers, view>>

\* onClick of a loan of the sidebar
SelectLoan(id) ==
  /\ Interactive /\ editingLoanId = Null
  /\ activeLoanId' = id
  /\ last' = Ran("selectLoan", id, NoFile)
  /\ UNCHANGED <<loans, editingLoanId, importError, importSuccess, dialogOpen, reads, timers, view>>

HandleImportClick ==
  /\ Interactive /\ editingLoanId = Null
  /\ importError' = Null
  /\ importSuccess' = FALSE
  /\ dialogOpen' = TRUE
  /\ last' = Ran("handleImportClick", 0, NoFile)
  /\ UNCHANGED <<loans, activeLoanId, editingLoanId, reads, timers, view>>

\* handleFileChange up to its await: no file picked returns at once
HandleFileChange(file) ==
  /\ Mounted /\ dialogOpen
  /\ dialogOpen' = FALSE
  /\ IF file = NoFile
       THEN reads' = reads
       ELSE /\ BagCardinality(reads) + timers.success + timers.error < MaxPending
            /\ reads' = reads (+) SetToBag({file})
  /\ last' = Ran("handleFileChange", 0, NoFile)
  /\ UNCHANGED <<loans, activeLoanId, editingLoanId, importError, importSuccess, timers, view>>

\* handleFileChange after its await, on the settlement r of importPortfolio:
\* the state it leaves; importedLoans[0].id throws into the catch branch
\* after setLoans when the file has no loan
AfterImport(r, ls, active, err, succ) ==
  IF r.ok /\ Len(r.loans) > 0
    THEN [loans |-> r.loans, activeLoanId |-> r.loans[1].id, importError |-> err,
          importSuccess |-> TRUE, timer |-> "success"]
  ELSE IF r.ok
    THEN [loans |-> r.loans, activeLoanId |-> active,
          importError |-> TypeErrorMessage("undefined", "id"),
          importSuccess |-> succ, timer |-> "error"]
  ELSE [loans |-> ls, activeLoanId |-> active, importError |-> r.message,
        importSuccess |-> succ, timer |-> "error"]

\* reader.onload / reader.onerror of a read in flight, and the rest of
\* handleFileChange that its settlement resumes
ReadComplete(file) ==
  LET after == AfterImport(ImportPortfolio(file), loans, activeLoanId,
                           importError, importSuccess)
  IN  /\ Mounted
      /\ BagIn(file, reads)
      /\ reads' = reads (-) SetToBag({file})
      /\ loans' = after.loans
      /\ activeLoanId' = after.activeLoanId
      /\ importError' = after.importError
      /\ importSuccess' = after.importSuccess
      /\ timers' = [timers EXCEPT ![after.timer] = @ + 1]
      /\ last' = Ran("readComplete", 0, file)
      /\ UNCHANGED <<editingLoanId, dialogOpen, view>>

\* setTimeout(() => setImportSuccess(false), 3000)
SuccessTimer ==
  /\ Mounted
  /\ timers.success > 0
  /\ timers' = [timers EXCEPT !.success = @ - 1]
  /\ importSuccess' = FALSE
  /\ last' = Ran("successTimer", 0, NoFile)
  /\ UNCHANGED <<loans, activeLoanId, editingLoanId, importError, dialogOpen, reads, view>>

\* setTimeout(() => setImportError(null), 5000)
ErrorTimer ==
  /\ Mounted
  /\ timers.error > 0
  /\ timers' = [timers EXCEPT !.error = @ - 1]
  /\ importError' = Null
  /\ last' = Ran("errorTimer", 0, NoFile)
  /\ UNCHANGED <<loans, activeLoanId, editingLoanId, importSuccess, dialogOpen, reads, view>>

(***************************************************************************)
(* The form and the sidebar rename                                         *)
(***************************************************************************)
NameValues == {<<>>, <<"A">>}

LoanTypes == {"amortizing", "bullet"}

GraceValues == {12, 60}

\* loans.map(loan => loan.id === activeLoanId ? {...loan, [field]: value} : loan)
UpdateLoanIn(ls, active, field, value) ==
  [i \in 1..Len(ls) |->
     IF ls[i].id = active THEN [ls[i] EXCEPT ![field] = value] ELSE ls[i]]

UpdateLoan(field, value) ==
  /\ Interactive /\ editingLoanId = Null
  /\ loans' = UpdateLoanIn(loans, activeLoanId, field, value)
  /\ last' = Ran("updateLoan", activeLoanId, NoFile)
  /\ UNCHANGED <<activeLoanId, editingLoanId, importError, importSuccess, dialogOpen,
                 reads, timers, view>>

\* loans.map(l => l.id === id ? {...l, name: value || `Loan ${id}`} : l)
UpdateLoanNameIn(ls, id, value) ==
  [i \in 1..Len(ls) |->
     IF ls[i].id = id
       THEN [ls[i] EXCEPT !.name = IF value = <<>> THEN LoanName(id) ELSE value]
       ELSE ls[i]]

\* onDoubleClick of a name of the sidebar; its two clicks select the loan
StartEditing(id) ==
  /\ Interactive /\ editingLoanId = Null
  /\ activeLoanId' = id
  /\ editingLoanId' = <<id>>
  /\ last' = Ran("startEditing", id, NoFile)
  /\ UNCHANGED <<loans, importError, importSuccess, dialogOpen, reads, timers, view>>

\* onBlur, or Enter, of the rename input of loan id
UpdateLoanName(id, value) ==
  /\ Interactive /\ editingLoanId = <<id>>
  /\ id \in Ids(loans)
  /\ loans' = UpdateLoanNameIn(loans, id, value)
  /\ editingLoanId' = Null
  /\ last' = Ran("updateLoanName", id, NoFile)
  /\ UNCHANGED <<activeLoanId, importError, importSuccess, dialogOpen, reads, timers, view>>

(***************************************************************************)
(* A render: the memos, in the order the component computes them           *)
(***************************************************************************)
\* useMemo(data): destructuring an undefined activeLoan throws
ComputeData ==
  /\ view.stage = "none"
  /\ view' = IF HasActiveLoan
               THEN [view EXCEPT !.stage = "data", !.data = Data(ActiveLoan)]
               ELSE [view EXCEPT !.stage = "data", !.failure = "TypeError"]
  /\ last' = Ran("data", activeLoanId, NoFile)
  /\ UNCHANGED <<loans, activeLoanId, editingLoanId, importError, importSuccess,
                 dialogOpen, reads, timers>>

\* useMemo(finalStats)
ComputeFinalStats ==
  /\ view.stage = "data" /\ view.failure = "none"
  /\ view' = [view EXCEPT !.stage = "finalStats",
                          !.finalStats = FinalStats(view.data, ActiveLoan)]
  /\ last' = Ran("finalStats", activeLoanId, NoFile)
  /\ UNCHANGED <<loans, activeLoanId, editingLoanId, importError, importSuccess,
                 dialogOpen, reads, timers>>

\* useMemo(portfolioTotals)
ComputePortfolioTotals ==
  /\ view.stage = "finalStats"
  /\ view' = [view EXCEPT !.stage = "portfolioTotals",
                          !.portfolioTotals = PortfolioTotals(loans)]
  /\ last' = Ran("portfolioTotals", activeLoanId, NoFile)
  /\ UNCHANGED <<loans, activeLoanId, editingLoanId, importError, importSuccess,
                 dialogOpen, reads, timers>>

\* a call computeIRR(principal, cashflows) on the arguments held in view.irr
CallComputeIRR ==
  /\ view.stage = "none"
  /\ view' = [view EXCEPT !.stage = "computeIRR",
                          !.irr.run = IRRRun(view.irr.missing, view.irr.principal,
                                             view.irr.cashflows)]
  /\ last' = Ran("computeIRR", activeLoanId, NoFile)
  /\ UNCHANGED <<loans, activeLoanId, editingLoanId, importError, importSuccess,
                 dialogOpen, reads, timers>>

\* the body of the portfolioTotals memo applied to loans, as a function of
\* the portfolio alone
AggregateTotals ==
  /\ view.stage = "none"
  /\ view' = [view EXCEPT !.stage = "aggregate",
                          !.portfolioTotals = PortfolioTotals(loans)]
  /\ last' = Ran("aggregate", activeLoanId, NoFile)
  /\ UNCHANGED <<loans, activeLoanId, editingLoanId, importError, importSuccess,
                 dialogOpen, reads, timers>>

(***************************************************************************)
(* Specifications                                                          *)
(***************************************************************************)
Next ==
  \/ AddLoan
  \/ \E id \in Ids(loans) : RemoveLoan(id)
  \/ \E id \in Ids(loans) : SelectLoan(id)
  \/ HandleImportClick
  \/ \E file \in Files \cup {NoFile} : HandleFileChange(file)
  \/ \E file \in Files : ReadComplete(file)
  \/ SuccessTimer
  \/ ErrorTimer

\* the portfolio with its import: loans come, go and are replaced by files
Spec == Init /\ [][Next]_vars

\* the same, with the timers of setTimeout firing once they are due
SpecTimers == Spec /\ WF_vars(SuccessTimer) /\ WF_vars(ErrorTimer)

\* the earlier variants: their addLoan, with the removeLoan, the selection
\* and the updateLoan they share with App
NextEarlier ==
  \/ EarlierAddLoan
  \/ \E id \in Ids(loans) : RemoveLoan(id)
  \/ \E id \in Ids(loans) : SelectLoan(id)
  \/ \E value \in LoanTypes : UpdateLoan("loanType", value)

SpecEarlier == Init /\ [][NextEarlier]_vars

\* the portfolio under the sidebar and the form, no import
NextEdit ==
  \/ AddLoan
  \/ \E id \in Ids(loans) : RemoveLoan(id)
  \/ \E id \in Ids(loans) : SelectLoan(id)
  \/ \E value \in NameValues : UpdateLoan("name", value)
  \/ \E value \in LoanTypes : UpdateLoan("loanType", value)
  \/ \E value \in GraceValues : UpdateLoan("graceMonths", value)
  \/ \E id \in Ids(loans) : StartEditing(id)
  \/ \E id \in Ids(loans), value \in NameValues : UpdateLoanName(id, value)

SpecEdit == Init /\ [][NextEdit]_vars

\* imported portfolios under the form and the sidebar rename
NextImportEdit ==
  \/ HandleImportClick
  \/ \E file \in Files \cup {NoFile} : HandleFileChange(file)
  \/ \E file \in Files : ReadComplete(file)
  \/ SuccessTimer
  \/ ErrorTimer
  \/ \E id \in Ids(loans) : SelectLoan(id)
  \/ \E value \in LoanTypes : UpdateLoan("loanType", value)
  \/ \E id \in Ids(loans) : StartEditing(id)
  \/ \E id \in Ids(loans), value \in NameValues : UpdateLoanName(id, value)

SpecImportEdit == Init /\ [][NextImportEdit]_vars

\* the schedule of one loan, over the loans of ScheduleLoans
Principals == {1000, 600}

TotalMonthsValues == {6, 12, 21, 60}

\* the number input of the Annual Rate has no min either
AnnualRates == {0 - 10, 0, 10}

\* the number input of the form has no min: a negative value can be entered
GraceMonthsValues == {0 - 3, 0, 3, 12}

Frequencies == {1, 3, 6, 12}

ScheduleLoans ==
  { [id |-> 1, name |-> LoanName(1), principal |-> pr, totalMonths |-> tm,
     annualRate |-> ar, graceMonths |-> gm, paymentFrequency |-> pf, loanType |-> lt] :
      pr \in Principals, tm \in TotalMonthsValues, ar \in AnnualRates,
      gm \in GraceMonthsValues, pf \in Frequencies, lt \in LoanTypes }

InitSchedule == \E loan \in ScheduleLoans : InitWith(<<loan>>, loan.id)

SpecSchedule == InitSchedule /\ [][ComputeData]_vars

\* a whole render of a one-loan portfolio, over the loans of StatsLoans
StatsLoans ==
  { loan \in ScheduleLoans :
      /\ loan.principal = 1000
      /\ loan.totalMonths \in {6, 12}
      /\ loan.paymentFrequency \in {3, 6} }

InitStats == \E loan \in StatsLoans : InitWith(<<loan>>, loan.id)

NextRender == ComputeData \/ ComputeFinalStats \/ ComputePortfolioTotals

SpecStats == InitStats /\ [][NextRender]_vars

\* the aggregator as a function of the portfolio: none, one or two loans
TotalsPrincipals == {0 - 1000, 0, 1000}

TotalsLoans(id) ==
  { [CreateLoan(id) EXCEPT !.principal = principal, !.totalMonths = 6,
                           !.graceMonths = graceMonths, !.loanType = loanType] :
      principal \in TotalsPrincipals, graceMonths \in {0, 3}, loanType \in LoanTypes }

Portfolios ==
  {<<>>} \cup { <<a>> : a \in TotalsLoans(1) }
         \cup { <<a, b>> : a \in TotalsLoans(1), b \in TotalsLoans(2) }

InitTotals == \E ls \in Portfolios : InitWith(ls, 1)

SpecTotals == InitTotals /\ [][AggregateTotals]_vars

\* computeIRR as a function of its arguments
Flow(payment, months) == [payment |-> payment, months |-> months]

IRRPrincipals == {FromInt(0 - 1000), Zero, FromInt(1000), FromInt(600), NaN}

IRRCashflows ==
  { <<>>,
    <<Flow(FromInt(1100), 12)>>,
    <<Flow(FromInt(1000), 12)>>,
    <<Flow(FromInt(600), 1)>>,
    <<Flow(FromInt(500), 1)>>,
    <<Flow(FromInt(500), 3), Flow(FromInt(500), 6)>>,
    <<Flow(FromInt(25), 3), Flow(FromInt(1025), 6)>>,
    <<Flow(FromInt(300), 6), Flow(FromInt(300), 12)>>,
    <<Flow(Zero, 3)>>,
    <<Flow(FromInt(1000), 0)>>,
    <<Flow(FromInt(1), 1)>>,
    <<Flow(FromInt(0 - 1000), 1)>>,
    <<Flow(NaN, 3)>>,
    <<Flow(Inf(1), 3)>>,
    <<Flow(FromInt(1000), 1), Flow(FromInt(0 - 25), 2)>> }

IRRCalls ==
  { [missing |-> missing, principal |-> principal, cashflows |-> cashflows, run |-> NoRun] :
      missing \in BOOLEAN, principal \in IRRPrincipals, cashflows \in IRRCashflows }

InitIRR ==
  /\ loans = <<CreateLoan(1)>>
  /\ activeLoanId = 1
  /\ editingLoanId = Null
  /\ importError = Null
  /\ importSuccess = FALSE
  /\ dialogOpen = FALSE
  /\ reads = EmptyBag
  /\ timers = [success |-> 0, error |-> 0]
  /\ \E call \in IRRCalls : view = [Unrendered EXCEPT !.irr = call]
  /\ last = Ran("init", 0, NoFile)

SpecIRR == InitIRR /\ [][CallComputeIRR]_vars

(***************************************************************************)
(* Properties                                                              *)
(***************************************************************************)
\* C1: an import that ends in the catch branch of handleFileChange (an
\* error message is shown) leaves loans and activeLoanId as they were
C1_FailedImportKeepsPortfolio ==
  [][(last'.op = "readComplete" /\ timers'.error = timers.error + 1)
       => (loans' = loans /\ activeLoanId' = activeLoanId)]_vars

\* C2: for a portfolio of exactly one loan the portfolio totals are that
\* loan's own stats: the same interest, effective rate and IRR, and the
\* loan's principal as the total principal
C2_OneLoanTotalsAreItsStats ==
  (view.stage = "portfolioTotals" /\ Len(loans) = 1) =>
    /\ view.portfolioTotals.totalInterest = view.finalStats.interest
    /\ view.portfolioTotals.effectiveRate = view.finalStats.effectiveRate
    /\ view.portfolioTotals.irrRate = view.finalStats.irrRate
    /\ view.portfolioTotals.totalPrincipal = FromInt(loans[1].principal)

\* C3: for an amortizing loan with amortPeriods <= 0 the schedule generator
\* returns no list of periods: it fails with InvalidLoanParameters
C3_RefusesNoAmortPeriods ==
  (/\ view.stage = "data"
   /\ HasActiveLoan
   /\ ActiveLoan.loanType = "amortizing"
   /\ AmortPeriods(ActiveLoan) <= 0)
    => view.failure = "InvalidLoanParameters"

DistinctIds(ls) == \A i, j \in 1..Len(ls) : i # j => ls[i].id # ls[j].id

\* C4: from the initial portfolio, under addLoan and removeLoan, the ids of
\* the loans are pairwise distinct; addLoan appends one loan whose id is the
\* greatest id held plus one, held by no loan before, and makes it active
C4_AddLoanFreshId ==
  /\ []DistinctIds(loans)
  /\ [][last'.op = "addLoan" =>
          /\ Len(loans') = Len(loans) + 1
          /\ SubSeq(loans', 1, Len(loans)) = loans
          /\ loans'[Len(loans')].id = Max(Ids(loans)) + 1
          /\ loans'[Len(loans')].id \notin Ids(loans)
          /\ activeLoanId' = loans'[Len(loans')].id]_vars

\* addLoan after the first of two loans was removed: the list has one
\* loan fewer than its greatest id
C4_Witness ==
  /\ last.op = "addLoan"
  /\ Len(loans) = 2
  /\ loans[1].id = 2
  /\ loans[2].id = 3

\* C5: removeLoan on a portfolio of exactly one loan changes neither the
\* loans nor the active loan id
C5_RemoveOnlyLoanIsNoOp ==
  [][(last'.op = "removeLoan" /\ Len(loans) = 1)
       => (loans' = loans /\ activeLoanId' = activeLoanId)]_vars

\* removeLoan(id) has run and the loan id is still there: it was the only one
C5_Witness ==
  /\ last.op = "removeLoan"
  /\ Len(loans) = 1
  /\ last.id \in Ids(loans)

KeptAfterRemoving(id, loan) == loan.id # id

\* C6: removeLoan(id) on two or more loans keeps the other loans in their
\* order; the active loan id becomes the id of the first surviving loan if
\* the active loan was removed, and stays as it was otherwise
C6_RemoveReassignsActive ==
  [][(last'.op = "removeLoan" /\ Len(loans) >= 2) =>
       /\ loans' = SelectSeq(loans, LAMBDA l : KeptAfterRemoving(last'.id, l))
       /\ IF last'.id = activeLoanId
            THEN Len(loans') > 0 /\ activeLoanId' = loans'[1].id
            ELSE activeLoanId' = activeLoanId]_vars

\* the file has a loans array of loan objects that all hold the eight fields
PassesValidation(file) ==
  /\ file.kind = "loans"
  /\ \A i \in 1..Len(file.items) :
       file.items[i].kind = "object" /\ RequiredSet \subseteq file.items[i].has

\* C7: when the import of a file that passes validation and holds a loan
\* completes, the portfolio is the file's loans in file order, the active
\* loan id is the first one's, the success flag is set and no error is shown
C7_ImportReplacesPortfolio ==
  (/\ last.op = "readComplete"
   /\ PassesValidation(last.file)
   /\ Len(last.file.items) > 0)
    => /\ loans = [n \in 1..Len(last.file.items) |-> last.file.items[n].rec]
       /\ activeLoanId = last.file.items[1].rec.id
       /\ importSuccess
       /\ importError = Null

\* a loan object that lacks a required field
Offending(item) == item.kind = "object" /\ ~(RequiredSet \subseteq item.has)

FirstOffending(items) ==
  CHOOSE i \in 1..Len(items) :
    Offending(items[i]) /\ \A j \in 1..(i - 1) : ~Offending(items[j])

FirstLacking(item) ==
  Required[CHOOSE j \in 1..Len(Required) :
             /\ Required[j] \notin item.has
             /\ \A k \in 1..(j - 1) : Required[k] \in item.has]

\* C8: when the file parses and its loans array holds a loan object that
\* lacks a required field, the message shown names the 1-based position of
\* the first such loan and the first field it lacks, in the listed order;
\* when the loans key is absent or no array, it is the missing-loans-array
\* message
C8_ImportMessages ==
  last.op = "readComplete" =>
    /\ (last.file.kind = "loans" /\ \E i \in 1..Len(last.file.items) : Offending(last.file.items[i]))
         => importError =
              <<"Loan ">> \o Str(FirstOffending(last.file.items))
                \o <<" is missing field \"",
                     FirstLacking(last.file.items[FirstOffending(last.file.items)]),
                     "\".">>
    /\ last.file.kind \in {"null", "noLoans", "loansNotArray"}
         => importError = <<"Invalid file: missing loans array.">>

\* one addition of the sum of the field named; st = [i, sum]
SumStep(seq, field, st) ==
  [i |-> st.i + 1, sum |-> FAdd(st.sum, seq[st.i][field])]

RECURSIVE SumOver(_, _, _, _)
SumOver(n, seq, field, st) ==
  IF st.i > Len(seq) THEN st
  ELSE IF n <= 1 THEN SumStep(seq, field, st)
  ELSE SumOver(n - n \div 2, seq, field, SumOver(n \div 2, seq, field, st))

\* the sum, from the left, of the field named over the list
SumOf(seq, field) == SumOver(Len(seq), seq, field, [i |-> 1, sum |-> Zero]).sum

Agree(loan, data) ==
  LET cashflows == BuildCashflows(loan)
  IN  /\ Len(cashflows) = Len(data)
      /\ \A i \in 1..Len(data) :
           /\ cashflows[i].payment = data[i].total_payment
           /\ cashflows[i].months = i * loan.paymentFrequency
      /\ SumOf(cashflows, "payment") = SumOf(data, "total_payment")

GraceCount(loan) == IF GracePeriods(loan) > 0 THEN GracePeriods(loan) ELSE 0

ValidAmortizing(loan) ==
  /\ loan.loanType = "amortizing"
  /\ loan.principal > 0
  /\ loan.paymentFrequency \in {1, 3, 6, 12}
  /\ AmortPeriods(loan) > 0

\* principal - k * principal / amortPeriods
BalanceAfter(loan, k) ==
  FSub(FromInt(loan.principal),
       FDiv(FMul(FromInt(k), FromInt(loan.principal)), FromInt(AmortPeriods(loan))))

\* C10 as claimed: the schedule of a valid amortizing loan ends with a
\* remaining_balance of 0; it is principal in the grace periods and
\* principal - k * principal / amortPeriods in amortization period k
C10_BalanceExact ==
  (view.stage = "data" /\ HasActiveLoan /\ ValidAmortizing(ActiveLoan)) =>
    LET g == GraceCount(ActiveLoan)
    IN  /\ view.data[Len(view.data)].remaining_balance = Zero
        /\ \A i \in 1..g : view.data[i].remaining_balance = FromInt(ActiveLoan.principal)
        /\ \A k \in 1..AmortPeriods(ActiveLoan) :
             view.data[g + k].remaining_balance = BalanceAfter(ActiveLoan, k)

\* the rounding the amortPeriods subtractions of principal / amortPeriods
\* can add up to: amortPeriods * principal * 2^(3 - MantBits)
Tolerance(loan) ==
  FMul(FromInt(AmortPeriods(loan) * loan.principal), Round(1, 3 - MantBits))

Near(x, y, tol) == FLeq(FAbs(FSub(x, y)), tol)

\* C10 as amended: the remaining_balance is principal in the grace
\* periods; in amortization period k it is no less than 0 and within the
\* rounding tolerance of principal - k * principal / amortPeriods, and in
\* the last period within that tolerance of 0
C10_BalanceWithinTolerance ==
  (view.stage = "data" /\ HasActiveLoan /\ ValidAmortizing(ActiveLoan)) =>
    LET g == GraceCount(ActiveLoan)
        tol == Tolerance(ActiveLoan)
    IN  /\ Len(view.data) = g + AmortPeriods(ActiveLoan)
        /\ Near(view.data[Len(view.data)].remaining_balance, Zero, tol)
        /\ \A i \in 1..g : view.data[i].remaining_balance = FromInt(ActiveLoan.principal)
        /\ \A k \in 1..AmortPeriods(ActiveLoan) :
             /\ FLeq(Zero, view.data[g + k].remaining_balance)
             /\ Near(view.data[g + k].remaining_balance, BalanceAfter(ActiveLoan, k), tol)

\* a schedule with grace periods whose last remaining_balance is a rounding
\* residue, not 0
C10_Witness ==
  /\ view.stage = "data"
  /\ ValidAmortizing(ActiveLoan)
  /\ GracePeriods(ActiveLoan) >= 1
  /\ view.data[Len(view.data)].remaining_balance # Zero

\* C11: in the schedule of a valid amortizing loan, with any annual rate
\* the form accepts, cumulative_interest never decreases from one period
\* to the next
C11_CumulativeInterestNonDecreasing ==
  (view.stage = "data" /\ HasActiveLoan /\ ValidAmortizing(ActiveLoan)) =>
    \A i \in 1..(Len(view.data) - 1) :
      FLeq(view.data[i].cumulative_interest, view.data[i + 1].cumulative_interest)

\* principal * (annualRate / 100) * (paymentFrequency / 12)
InterestPerPeriod(loan) ==
  FMul(FMul(FromInt(loan.principal), FDiv(FromInt(loan.annualRate), FromInt(100))),
       FDiv(FromInt(loan.paymentFrequency), FromInt(12)))

ValidBullet(loan) ==
  /\ loan.loanType = "bullet"
  /\ loan.principal > 0
  /\ loan.paymentFrequency \in {1, 3, 6, 12}

\* the default loan of createLoan, as a bullet loan
DefaultAsBullet(loan) ==
  /\ loan.loanType = "bullet"
  /\ loan.principal = 1000 /\ loan.totalMonths = 60 /\ loan.annualRate = 10
  /\ loan.graceMonths = 12 /\ loan.paymentFrequency = 3

\* C12: the schedule of a valid bullet loan has ceil(totalMonths /
\* paymentFrequency) periods; each pays the interest principal *
\* (annualRate / 100) * (paymentFrequency / 12); the remaining balance is
\* principal except in the last period, where it is 0; the principal payment
\* is 0 except in the last period, where it is principal, and the last total
\* payment is principal + interest; the default loan as a bullet loan has 20
\* periods of 25 interest and a last total payment of 1025
C12_BulletSchedule ==
  (view.stage = "data" /\ HasActiveLoan /\ ValidBullet(ActiveLoan)) =>
    LET n == Len(view.data)
        principal == FromInt(ActiveLoan.principal)
    IN  /\ n = CeilDiv(ActiveLoan.totalMonths, ActiveLoan.paymentFrequency)
        /\ \A i \in 1..n :
             /\ view.data[i].interest_payment = InterestPerPeriod(ActiveLoan)
             /\ view.data[i].remaining_balance = (IF i = n THEN Zero ELSE principal)
             /\ view.data[i].principal_payment = (IF i = n THEN principal ELSE Zero)
        /\ n > 0 => view.data[n].total_payment
                      = FAdd(principal, InterestPerPeriod(ActiveLoan))
        /\ DefaultAsBullet(ActiveLoan) =>
             /\ n = 20
             /\ \A i \in 1..n : view.data[i].interest_payment = FromInt(25)
             /\ view.data[n].total_payment = FromInt(1025)

\* the default loan as a bullet loan has been scheduled
C12_Witness ==
  /\ view.stage = "data"
  /\ HasActiveLoan
  /\ DefaultAsBullet(ActiveLoan)
  /\ Len(view.data) = 20

\* the loan with another graceMonths
WithGraceMonths(loan, g) == [loan EXCEPT !.graceMonths = g]

\* the schedule, the cashflows and the per-loan stats (IRR included) of the
\* two loans are the same
SameLoanOutputs(loan, other) ==
  /\ Data(other) = Data(loan)
  /\ BuildCashflows(other) = BuildCashflows(loan)
  /\ FinalStats(Data(other), other) = FinalStats(Data(loan), loan)

\* the portfolio totals of the two one-loan portfolios show the same
\* interest and effective rate
SameTotals(loan, other) ==
  /\ PortfolioTotals(<<other>>).totalInterest = PortfolioTotals(<<loan>>).totalInterest
  /\ PortfolioTotals(<<other>>).effectiveRate = PortfolioTotals(<<loan>>).effectiveRate

\* C13: a bullet loan and the same loan with any other graceMonths have the
\* same schedule, cashflows, IRR and per-loan stats, and the same
\* totalInterest and effectiveRate in the portfolio totals
C13_GraceIgnoredForBullet ==
  (view.stage = "portfolioTotals" /\ Len(loans) = 1 /\ loans[1].loanType = "bullet") =>
    \A g \in GraceMonthsValues :
      /\ SameLoanOutputs(loans[1], WithGraceMonths(loans[1], g))
      /\ SameTotals(loans[1], WithGraceMonths(loans[1], g))

\* C14: after any sequence of name edits, through the sidebar rename or the
\* Loan Name input of the form, no loan has an empty name
C14_NameNeverEmpty == \A i \in 1..Len(loans) : loans[i].name # <<>>

\* C15: computeIRR returns exactly 0, without a pass of the solver, when the
\* cashflow list is missing or empty or the principal is not positive
C15_GuardReturnsZero ==
  (view.stage = "computeIRR"
     /\ (view.irr.missing \/ Len(view.irr.cashflows) = 0
           \/ FLeq(view.irr.principal, Zero))) =>
    (view.irr.run.result = Zero /\ view.irr.run.passes = 0)

C15_Witness ==
  /\ view.stage = "computeIRR"
  /\ ~view.irr.missing
  /\ Len(view.irr.cashflows) > 0
  /\ view.irr.principal = FromInt(0 - 1000)
  /\ view.irr.run.result = Zero
  /\ view.irr.run.passes = 0

\* the call of view.irr got past the first line of computeIRR
SolverRan ==
  /\ view.stage = "computeIRR"
  /\ ~view.irr.missing
  /\ Len(view.irr.cashflows) > 0
  /\ ~FLeq(view.irr.principal, Zero)

\* C16: the Newton-Raphson loop of computeIRR makes at most 100 passes; it
\* leaves before the 100th only by a break, taken when |derivative| < 1e-12 at
\* the iterate or when the new iterate is within 1e-10 of the one before; a pass
\* that re-seeds the iterate counts like any other
C16_LoopBounded ==
  /\ view.irr.run.passes <= MaxIter
  /\ SolverRan =>
       /\ view.irr.run.passes >= 1
       /\ view.irr.run.exit = "none" => view.irr.run.passes = MaxIter
       /\ view.irr.run.exit = "stalled" =>
            FLess(FAbs(NpvDerivative(view.irr.cashflows, view.irr.run.r)), Eps12)
       /\ view.irr.run.exit = "converged" =>
            FLess(FAbs(FSub(view.irr.run.r, view.irr.run.prev)), Eps10)

\* every pass of the run re-seeded the iterate, and all 100 were made
C16_Witness ==
  /\ SolverRan
  /\ view.irr.principal = FromInt(1000)
  /\ view.irr.cashflows = <<Flow(FromInt(1), 1)>>
  /\ view.irr.run.r = Dec(1, 10000)
  /\ view.irr.run.exit = "none"
  /\ view.irr.run.passes = MaxIter

\* C17: computeIRR returns a finite number for every input; when the annualized
\* value ((1 + r)^12 - 1) * 100 is NaN or an infinity it returns 0, and
\* otherwise that value
C17_ResultFinite ==
  view.stage = "computeIRR" =>
    /\ IsFinite(view.irr.run.result)
    /\ ~IsFinite(view.irr.run.annualized) => view.irr.run.result = Zero
    /\ (SolverRan /\ IsFinite(view.irr.run.annualized)) =>
         view.irr.run.result = view.irr.run.annualized
    /\ SolverRan => view.irr.run.annualized = Annualized(view.irr.run.r)

\* a NaN payment makes every iterate NaN: the annualized value is not finite
C17_Witness ==
  /\ SolverRan
  /\ view.irr.cashflows = <<Flow(NaN, 3)>>
  /\ ~IsFinite(view.irr.run.annualized)
  /\ view.irr.run.result = Zero

\* flat monthly rates at which some cashflows of IRRCashflows are worth a
\* principal of IRRPrincipals exactly: 0 and -1/2
KnownRates == {Zero, FNeg(Dec(1, 2))}

\* |a - b| <= 1e-4
RoundTripNear(a, b) == FLeq(FAbs(FSub(a, b)), Dec(1, 10000))

\* the cashflows are worth the principal at the rate, and at no other: every
\* payment falls a month or more after the principal is paid out
ConstructedAt(rate, principal, cashflows) ==
  /\ \A i \in 1..Len(cashflows) : cashflows[i].months >= 1
  /\ Npv(principal, cashflows, rate) = Zero

\* C18: when the net present value of the cashflows at a known flat monthly
\* rate r equals the principal, computeIRR returns ((1 + r)^12 - 1) * 100
\* within 1e-4
C18_RoundTrip ==
  \A rate \in KnownRates :
    (SolverRan /\ ConstructedAt(rate, view.irr.principal, view.irr.cashflows)) =>
      RoundTripNear(view.irr.run.result, Annualized(rate))

\* the sum of the principals of a portfolio, in integers
RECURSIVE SummedPrincipal(_, _)
SummedPrincipal(ls, i) ==
  IF i > Len(ls) THEN 0 ELSE ls[i].principal + SummedPrincipal(ls, i + 1)

\* C19: for an empty portfolio the aggregator returns totalPrincipal,
\* totalInterest, effectiveRate and irrRate all 0; for any portfolio whose
\* summed principal is not positive it returns effectiveRate 0 and irrRate 0
C19_ZeroTotals ==
  view.stage = "aggregate" =>
    /\ Len(loans) = 0 =>
         view.portfolioTotals =
           [totalPrincipal |-> Zero, totalInterest |-> Zero,
            effectiveRate |-> Zero, irrRate |-> Zero]
    /\ SummedPrincipal(loans, 1) <= 0 =>
         /\ view.portfolioTotals.effectiveRate = Zero
         /\ view.portfolioTotals.irrRate = Zero
    /\ view.portfolioTotals.totalPrincipal = FromInt(SummedPrincipal(loans, 1))

\* two loans whose principals cancel: the sums are not all 0, the rates are
C19_Witness ==
  /\ view.stage = "aggregate"
  /\ Len(loans) = 2
  /\ loans[1].principal = 1000
  /\ loans[2].principal = 0 - 1000
  /\ view.portfolioTotals.totalPrincipal = Zero
  /\ view.portfolioTotals.totalInterest # Zero
  /\ view.portfolioTotals.effectiveRate = Zero
  /\ view.portfolioTotals.irrRate = Zero

\* the fields createLoan gives a loan, whatever its id and name
IsDefaultLoan(loan) ==
  /\ loan.principal = 1000
  /\ loan.totalMonths = 60
  /\ loan.annualRate = 10
  /\ loan.graceMonths = 12
  /\ loan.paymentFrequency = 3
  /\ loan.loanType = "amortizing"

\* C20: the schedule of the default loan has 4 grace periods and then 16
\* amortization periods with principalPerPeriod 62.5; the first grace period
\* pays interest 25 and no principal, the first amortization period pays
\* interest 25 and principal 62.5
C20_DefaultLoanSchedule ==
  (view.stage = "data" /\ HasActiveLoan /\ IsDefaultLoan(ActiveLoan)) =>
    /\ GracePeriods(ActiveLoan) = 4
    /\ AmortPeriods(ActiveLoan) = 16
    /\ PrincipalPerPeriod(ActiveLoan) = Dec(125, 2)
    /\ Len(view.data) = 20
    /\ \A p \in 1..4 : view.data[p].principal_payment = Zero
    /\ \A p \in 5..20 : view.data[p].principal_payment = Dec(125, 2)
    /\ view.data[1].interest_payment = FromInt(25)
    /\ view.data[5].interest_payment = FromInt(25)

C20_Witness ==
  /\ view.stage = "data"
  /\ HasActiveLoan
  /\ ActiveLoan = CreateLoan(ActiveLoan.id)
  /\ Len(view.data) = 20
  /\ view.data[5].principal_payment = Dec(125, 2)

C22_EarlierIdsDistinct ==
  /\ []DistinctIds(loans)
  /\ [][last'.op = "addLoan" => loans'[Len(loans')].id \notin Ids(loans)]_vars

\* C23: when an import succeeds, the ids of the loans of the portfolio are
\* pairwise distinct
C23_ImportedIdsDistinct ==
  (/\ last.op = "readComplete"
   /\ PassesValidation(last.file)
   /\ Len(last.file.items) > 0)
    => DistinctIds(loans)

\* every amount of a period is 0 or more
NonNegativePeriod(period) ==
  /\ FLeq(Zero, period.remaining_balance)
  /\ FLeq(Zero, period.interest_payment)
  /\ FLeq(Zero, period.principal_payment)
  /\ FLeq(Zero, period.total_payment)
  /\ FLeq(Zero, period.cumulative_interest)

\* C24: in the schedule of a valid loan of either type with annualRate >= 0,
\* remaining_balance, interest_payment, principal_payment, total_payment and
\* cumulative_interest of every period are 0 or more
C24_AmountsNonNegative ==
  (/\ view.stage = "data"
   /\ HasActiveLoan
   /\ ActiveLoan.annualRate >= 0
   /\ (ValidAmortizing(ActiveLoan) \/ ValidBullet(ActiveLoan)))
    => \A i \in 1..Len(view.data) : NonNegativePeriod(view.data[i])

\* an amortizing schedule with grace periods, at a positive rate, whose last
\* period reports a balance of 0
C24_Witness ==
  /\ view.stage = "data"
  /\ HasActiveLoan
  /\ ActiveLoan.annualRate > 0
  /\ ValidAmortizing(ActiveLoan)
  /\ GracePeriods(ActiveLoan) >= 1
  /\ Len(view.data) = GracePeriods(ActiveLoan) + AmortPeriods(ActiveLoan)
  /\ view.data[Len(view.data)].remaining_balance = Zero

\* the k-th period of the amortization phase of the schedule shown
AmortPeriod(k) == view.data[GraceCount(ActiveLoan) + k]

\* (principal - (k - 1) * principalPerPeriod) * periodRate
ClosedFormInterest(loan, k) ==
  FMul(FSub(FromInt(loan.principal), FMul(FromInt(k - 1), PrincipalPerPeriod(loan))),
       PeriodRate(loan))

\* interest_payment and total_payment fall from each amortization period to
\* the next when annualRate > 0
StrictlyDecreasing(loan) ==
  loan.annualRate > 0 =>
    \A k \in 1..(AmortPeriods(loan) - 1) :
      /\ FLess(AmortPeriod(k + 1).interest_payment, AmortPeriod(k).interest_payment)
      /\ FLess(AmortPeriod(k + 1).total_payment, AmortPeriod(k).total_payment)

BalanceBefore(loan, k) ==
  IF k = 1 THEN FromInt(loan.principal) ELSE AmortPeriod(k - 1).remaining_balance

C26_ActiveLoanDefined ==
  /\ Len(loans) > 0
  /\ activeLoanId \in Ids(loans)

\* C27: importSuccess is never true while an import error message is shown
C27_FeedbackExclusive == ~(importSuccess /\ importError # Null)

\* The timers of one kind have the same delay, so they fire in the order in
\* which they were started; a message shown was set by the latest import of
\* its kind, whose timer was started last. The timer that fires is the one
\* of the message shown exactly when it is the only one pending.
OwnTimer(kind) == timers[kind] = 1

\* C28: a feedback message is cleared only by handleImportClick or by the
\* dismiss timer of the import that set it, never by the timer an earlier
\* import started
C28_ClearedByOwnTimer ==
  [][/\ (importError # Null /\ importError' = Null) =>
          \/ last'.op = "handleImportClick"
          \/ last'.op = "errorTimer" /\ OwnTimer("error")
     /\ (importSuccess /\ ~importSuccess') =>
          \/ last'.op = "handleImportClick"
          \/ last'.op = "successTimer" /\ OwnTimer("success")]_vars

\* the loan at position i is the only one that differs between ls and after,
\* and it differs in no field but those of fields
OnlyChanged(ls, after, i, fields) ==
  /\ Len(after) = Len(ls)
  /\ \A j \in 1..Len(ls) : j # i => after[j] = ls[j]
  /\ \A f \in DOMAIN ls[i] \ fields : after[i][f] = ls[i][f]

\* C29: updateLoan(field, value) changes one field of the active loan and
\* updateLoanName(id, value) the name of the loan id; the other fields of that
\* loan, every other loan, the number and order of the loans and the active
\* loan id stay as they were
C29_UpdateFrame ==
  [][/\ last'.op = "updateLoan" =>
          /\ activeLoanId' = activeLoanId
          /\ \E i \in 1..Len(loans) :
               /\ loans[i].id = activeLoanId
               /\ \E field \in DOMAIN loans[i] : OnlyChanged(loans, loans', i, {field})
     /\ last'.op = "updateLoanName" =>
          /\ activeLoanId' = activeLoanId
          /\ \E i \in 1..Len(loans) :
               /\ loans[i].id = last'.id
               /\ OnlyChanged(loans, loans', i, {"name"})]_vars

\* the render has computed the stats of a valid loan of either type
StatsOfValidLoan ==
  /\ view.stage \in {"finalStats", "portfolioTotals"}
  /\ HasActiveLoan
  /\ (ValidAmortizing(ActiveLoan) \/ ValidBullet(ActiveLoan))

\* total_payment = interest_payment + principal_payment in every period
TotalsSplit(data) ==
  \A i \in 1..Len(data) :
    data[i].total_payment = FAdd(data[i].interest_payment, data[i].principal_payment)

\* C30 as claimed: finalStats.paid equals the sum of total_payment over the
\* schedule, the principal_payment values sum to exactly principal and every
\* period has total_payment = interest_payment + principal_payment
C30_PaidIsSumExact ==
  StatsOfValidLoan =>
    /\ view.finalStats.paid = SumOf(view.data, "total_payment")
    /\ SumOf(view.data, "principal_payment") = FromInt(ActiveLoan.principal)
    /\ TotalsSplit(view.data)

\* the rounding that the additions of a schedule of n periods can add up to,
\* on amounts of the size of principal: n * principal * 2^(2 - MantBits)
SumTolerance(loan, n) == FMul(FromInt(n * loan.principal), Round(1, 2 - MantBits))

\* C30 as amended: finalStats.paid is principal + the last cumulative_interest
\* and equals the sum of total_payment within the rounding tolerance; the
\* principal_payment values sum to principal within that tolerance, exactly
\* for a bullet loan; every period has total_payment = interest_payment +
\* principal_payment
C30_PaidIsSumWithinTolerance ==
  StatsOfValidLoan =>
    /\ view.finalStats.paid =
         FAdd(FromInt(ActiveLoan.principal), view.data[Len(view.data)].cumulative_interest)
    /\ Near(view.finalStats.paid, SumOf(view.data, "total_payment"),
            SumTolerance(ActiveLoan, Len(view.data)))
    /\ Near(SumOf(view.data, "principal_payment"), FromInt(ActiveLoan.principal),
            SumTolerance(ActiveLoan, Len(view.data)))
    /\ ActiveLoan.loanType = "bullet" =>
         SumOf(view.data, "principal_payment") = FromInt(ActiveLoan.principal)
    /\ TotalsSplit(view.data)

\* the stats of an amortizing loan whose paid is not the sum of the
\* total_payment values exactly
C30_Witness ==
  /\ StatsOfValidLoan
  /\ ActiveLoan.loanType = "amortizing"
  /\ view.finalStats.paid # SumOf(view.data, "total_payment")

====
